---- MODULE Spec2Model ----
(***************************************************************************)
(* Message board (cloudysky): users, posts, comments, suppression and the  *)
(* feed views of src/cloudysky/views.py over the tables of                 *)
(* src/app/models.py.  One request is served at a time and every request   *)
(* is one atomic step on the store.                                        *)
(***************************************************************************)
EXTENDS Integers, Sequences, FiniteSets, TLC

\* ---------------------------------------------------------------- bounds
NumUsers == 2
MaxRows == 5

\* ------------------------------------------------------------- constants
TruncLen == 100
TicksPerMinute == 2

Anonymous == 0
None == 0
Absent == -1
NonNumeric == -2
SuperUser == 1
NoReason == "<absent>"
JsonNull == "<null>"

Principals == 1..NumUsers
Methods == {"GET", "POST"}
FormReasons == {"spam", NoReason}
\* a text is one character repeated len times; len = 0 is a missing or
\* empty field
Text(ch, len) == [ch |-> ch, len |-> len]
NoText == Text(0, 0)
Titles == {NoText, Text(1, 1)}
ShortText == Text(2, 1)
LongText == Text(3, TruncLen + 1)
Texts == {ShortText, LongText}
CommentTexts == {NoText, Text(4, 1)}
\* "This comment has been removed"
Placeholder == Text(5, 29)
\* a request body: an HTML form, or JSON that fails to decode, decodes to a
\* non-object, or decodes to an object
Payloads == {"form", "badjson", "nondict", "json"}
\* ... the bodies a view can read its fields from
HidePayloads == {"form", "json"}

\* the server processes that may serve requests side by side
Workers == {1, 2}

VARIABLES AuthUser, UserType, User, Post, Comment, SuppressionReason, resp,
          inflight

store == <<AuthUser, UserType, User, Post, Comment, SuppressionReason>>
vars ==
  <<AuthUser, UserType, User, Post, Comment, SuppressionReason, resp, inflight>>

\* ------------------------------------------------------------ responses
Reply(status, text, id, data) ==
  [status |-> status, text |-> text, id |-> id, data |-> data]

NoReply == Reply(0, "", None, <<>>)

\* a worker between requests; a worker inside a view holds the view's name,
\* the statement it is at (pc) and the view's local variables
Free ==
  [pc |-> "free", view |-> "", user |-> Anonymous, target |-> None,
   title |-> NoText, content |-> NoText, reason |-> NoReason,
   profile |-> None, reason_row |-> None]

\* ------------------------------------------------------------- the store
\* a view left without the login decorator
is_authenticated_always(user) ==
  TRUE

is_authenticated(user) ==
  user # Anonymous

auth_exists(username) == \E a \in AuthUser : a.username = username

is_staff(user) == \E a \in AuthUser : a.username = user /\ a.is_staff

has_profile(user) == \E p \in User : p.user = user

profile_of(user) == CHOOSE p \in User : p.user = user

profile_by_id(id) == CHOOSE p \in User : p.id = id

role_of(profile) == CHOOSE t \in UserType : t.name = profile.user_type

can_moderate(profile) == role_of(profile).can_moderate

\* request.user: a logged-in account or the anonymous user
Users == {a.username : a \in AuthUser} \cup {Anonymous}

PostIdInputs == {Absent, NonNumeric} \cup (1..(Len(Post) + 1))
CommentIdInputs == {Absent, NonNumeric} \cup (1..(Len(Comment) + 1))

\* rows in the auth, post and comment tables, and suppressions among them
Rows ==
  Cardinality(AuthUser) + Len(Post) + Len(Comment)
    + Cardinality({p \in DOMAIN Post : Post[p].is_suppressed})
    + Cardinality({c \in DOMAIN Comment : Comment[c].is_suppressed})

\* the database after migrate and createsuperuser: one staff account that
\* has no profile yet
Init ==
  /\ AuthUser = {[username |-> SuperUser, is_staff |-> TRUE]}
  /\ UserType = {}
  /\ User = {}
  /\ Post = <<>>
  /\ Comment = <<>>
  /\ SuppressionReason = <<>>
  /\ resp = NoReply
  /\ inflight = [w \in Workers |-> Free]

\* ------------------------------------------------- get_or_create helpers
UserType_get_or_create(types, name, default_can_moderate) ==
  IF \E t \in types : t.name = name
  THEN types
  ELSE types \cup {[name |-> name, can_moderate |-> default_can_moderate]}

\* an inserted row takes the next id of the table
User_create(profiles, user, type_name) ==
  profiles \cup {[id |-> Cardinality(profiles) + 1, user |-> user,
                  user_type |-> type_name]}

User_get_or_create(profiles, user, type_name) ==
  IF \E p \in profiles : p.user = user
  THEN profiles
  ELSE User_create(profiles, user, type_name)

role_name(staff) == IF staff THEN "admin" ELSE "serf"

\* the user_type of a profile that has none
NoRole == "<none>"

\* a fallback that assigns the role whatever the profile has
assign_role_always(profile, type_name) ==
  [profile EXCEPT !.user_type = type_name]

\* "if the profile exists but has no user_type, assign one"
assign_missing_role(profile, type_name) ==
  IF profile.user_type = NoRole
  THEN [profile EXCEPT !.user_type = type_name]
  ELSE profile

\* ----------------------------------------------------------- environment
\* one request is served at a time, from start to end: a handler starts when
\* no response is waiting to be sent, and no worker is left inside a view
idle == resp = NoReply

send_response ==
  /\ ~idle
  /\ UNCHANGED inflight
  /\ resp' = NoReply
  /\ UNCHANGED store

\* ---------------------------------------------------------------- sign-up
\* is_admin is "1", another non-empty value ("0"), or missing ("")
create_user(method, username, fields_ok, is_admin) ==
  /\ idle
  /\ UNCHANGED inflight
  /\ Rows < MaxRows
  /\ IF method # "POST"
     THEN /\ resp' = Reply(400, "Invalid request method. Use POST.", None, <<>>)
          /\ UNCHANGED store
     ELSE IF username = Absent \/ ~fields_ok \/ is_admin = ""
     THEN /\ resp' = Reply(400, "Missing required fields.", None, <<>>)
          /\ UNCHANGED store
     ELSE IF auth_exists(username)
     THEN \* the username is unique: IntegrityError, nothing written
          /\ resp' = Reply(500, "IntegrityError", None, <<>>)
          /\ UNCHANGED store
     ELSE /\ AuthUser' = AuthUser \cup
                 {[username |-> username, is_staff |-> (is_admin = "1")]}
          /\ UserType' = UserType_get_or_create(UserType,
                                                role_name(is_admin = "1"), FALSE)
          /\ User' = User_create(User, username, role_name(is_admin = "1"))
          /\ resp' = Reply(201, "User created successfully!", None, <<>>)
          /\ UNCHANGED <<Post, Comment, SuppressionReason>>

\* ---------------------------------------------------------------- content
NewPost(profile_id, title, content, t) ==
  [author |-> profile_id, title |-> title, content |-> content, date |-> t,
   is_suppressed |-> FALSE, suppressed_reason |-> None,
   suppressed_datetime |-> None, suppressed_by |-> None]

NewComment(post_id, profile_id, content, t) ==
  [post |-> post_id, author |-> profile_id, content |-> content, date |-> t,
   is_suppressed |-> FALSE, suppressed_reason |-> None,
   suppressed_datetime |-> None, suppressed_by |-> None]

\* t is what the clock reads when the row is saved (auto_now_add)
create_post(user, method, payload, title, content, t) ==
  /\ idle
  /\ UNCHANGED inflight
  /\ Rows < MaxRows
  /\ IF ~is_authenticated(user)
     THEN /\ resp' = Reply(401, "Unauthorized", None, <<>>)
          /\ UNCHANGED store
     ELSE IF method # "POST"
     THEN /\ resp' = Reply(405, "Invalid method", None, <<>>)
          /\ UNCHANGED store
     ELSE IF payload = "badjson"
     THEN /\ resp' = Reply(400, "Invalid JSON", None, <<>>)
          /\ UNCHANGED store
     ELSE IF payload = "nondict"
     THEN /\ resp' = Reply(400, "Invalid JSON structure", None, <<>>)
          /\ UNCHANGED store
     ELSE IF title.len = 0 \/ content.len = 0
     THEN /\ resp' = Reply(400, "Missing title or content", None, <<>>)
          /\ UNCHANGED store
     ELSE LET profiles == User_get_or_create(User, user, "serf")
              profile == CHOOSE p \in profiles : p.user = user
          IN /\ UserType' = UserType_get_or_create(UserType, "serf", FALSE)
             /\ User' = (profiles \ {profile})
                           \cup {assign_missing_role(profile, "serf")}
             /\ Post' = Append(Post, NewPost(profile.id, title, content, t))
             /\ resp' = Reply(201, "Post created", Len(Post) + 1, <<>>)
             /\ UNCHANGED <<AuthUser, Comment, SuppressionReason>>

create_comment(user, method, post_id, content, accept_html, t) ==
  /\ idle
  /\ UNCHANGED inflight
  /\ Rows < MaxRows
  /\ IF ~is_authenticated(user)
     THEN /\ resp' = Reply(401, "Unauthorized", None, <<>>)
          /\ UNCHANGED store
     ELSE IF method # "POST"
     THEN /\ resp' = Reply(405, "Invalid method", None, <<>>)
          /\ UNCHANGED store
     ELSE IF post_id = Absent \/ content.len = 0
     THEN /\ resp' = Reply(400, "Missing post_id or content", None, <<>>)
          /\ UNCHANGED store
     ELSE IF post_id = NonNumeric
     THEN \* Post.objects.get(id="abc") raises ValueError
          /\ resp' = Reply(500, "ValueError", None, <<>>)
          /\ UNCHANGED store
     ELSE IF post_id \notin DOMAIN Post
     THEN /\ resp' = Reply(400, "Post does not exist.", None, <<>>)
          /\ UNCHANGED store
     ELSE LET rname == role_name(is_staff(user))
              profiles == User_get_or_create(User, user, rname)
              profile == CHOOSE p \in profiles : p.user = user
          IN /\ UserType' = UserType_get_or_create(UserType, rname,
                                                   is_staff(user))
             /\ User' = profiles
             /\ Comment' = Append(Comment,
                                  NewComment(post_id, profile.id, content, t))
             /\ resp' = IF accept_html
                        THEN Reply(302, "/app/board/", None, <<>>)
                        ELSE Reply(201, "Comment created", Len(Comment) + 1, <<>>)
             /\ UNCHANGED <<AuthUser, Post, SuppressionReason>>

\* ------------------------------------------------------------ visibility
\* can_view without the author's exception
can_view_no_author(obj, user_profile) ==
  IF ~obj.is_suppressed THEN TRUE
  ELSE IF can_moderate(user_profile) THEN TRUE
  ELSE FALSE

\* can_view that shows everything
can_view_all(obj, user_profile) == TRUE

can_view(obj, user_profile) ==
  IF ~obj.is_suppressed THEN TRUE
  ELSE IF can_moderate(user_profile) THEN TRUE
  ELSE IF obj.author = user_profile.id THEN TRUE
  ELSE FALSE

\* ----------------------------------------------------------- suppression
\* a plain create in place of get_or_create
SuppressionReason_create(reasons, code) ==
  Append(reasons, [suppressed_code |-> code])

SuppressionReason_get_or_create(reasons, code) ==
  IF \E i \in DOMAIN reasons : reasons[i].suppressed_code = code
  THEN reasons
  ELSE Append(reasons, [suppressed_code |-> code])

reason_id(reasons, code) ==
  CHOOSE i \in DOMAIN reasons : reasons[i].suppressed_code = code

reason_code(reason) == IF reason = NoReason THEN "default_reason" ELSE reason

\* a hide that flips the flag
suppress_toggle(obj, reason, t, profile_id) ==
  [obj EXCEPT !.is_suppressed = ~obj.is_suppressed,
              !.suppressed_reason = reason,
              !.suppressed_datetime = t, !.suppressed_by = profile_id]

\* a hide that forgets who suppressed
suppress_no_actor(obj, reason, t, profile_id) ==
  [obj EXCEPT !.is_suppressed = TRUE, !.suppressed_reason = reason,
              !.suppressed_datetime = t]

\* a hide that keeps the record of an item that is already suppressed
suppress_once(obj, reason, t, profile_id) ==
  IF obj.is_suppressed
  THEN obj
  ELSE [obj EXCEPT !.is_suppressed = TRUE, !.suppressed_reason = reason,
                   !.suppressed_datetime = t, !.suppressed_by = profile_id]

\* a hide that also blanks the body
suppress_wipe(obj, reason, t, profile_id) ==
  [obj EXCEPT !.is_suppressed = TRUE, !.suppressed_reason = reason,
              !.suppressed_datetime = t, !.suppressed_by = profile_id,
              !.content = NoText]

\* a save() after the first of the four assignments
suppress_flag_only(obj, reason, t, profile_id) ==
  [obj EXCEPT !.is_suppressed = TRUE]

\* the four suppression fields written before save()
suppress(obj, reason, t, profile_id) ==
  [obj EXCEPT !.is_suppressed = TRUE, !.suppressed_reason = reason,
              !.suppressed_datetime = t, !.suppressed_by = profile_id]

\* the guard of "prevent suppressing own posts"
own_content_guard(obj, profile, staff) ==
  obj.author = profile.id /\ ~staff

\* t is what timezone.now() returns
hide_post(user, method, post_id, reason, t) ==
  /\ idle
  /\ UNCHANGED inflight
  /\ (post_id \in DOMAIN Post /\ ~Post[post_id].is_suppressed) => Rows < MaxRows
  /\ IF ~is_authenticated(user)
     THEN /\ resp' = Reply(401, "Unauthorized", None, <<>>)
          /\ UNCHANGED store
     ELSE IF method # "POST"
     THEN /\ resp' = Reply(405, "Invalid method", None, <<>>)
          /\ UNCHANGED store
     ELSE IF ~is_staff(user)
     THEN /\ resp' = Reply(401, "Unauthorized", None, <<>>)
          /\ UNCHANGED store
     ELSE IF post_id = Absent
     THEN /\ resp' = Reply(400, "Missing post_id", None, <<>>)
          /\ UNCHANGED store
     ELSE IF post_id = NonNumeric
     THEN /\ resp' = Reply(500, "ValueError", None, <<>>)
          /\ UNCHANGED store
     ELSE IF post_id \notin DOMAIN Post
     THEN /\ resp' = Reply(400, "Post does not exist", None, <<>>)
          /\ UNCHANGED store
     ELSE IF ~has_profile(user)
     THEN \* User.objects.get raises DoesNotExist
          /\ resp' = Reply(500, "DoesNotExist", None, <<>>)
          /\ UNCHANGED store
     ELSE IF own_content_guard(Post[post_id], profile_of(user), is_staff(user))
     THEN /\ resp' = Reply(403, "You cannot hide your own post.", None, <<>>)
          /\ UNCHANGED store
     ELSE LET rname == role_name(is_staff(user))
              profiles == User_get_or_create(User, user, rname)
              profile == CHOOSE p \in profiles : p.user = user
              reasons == SuppressionReason_get_or_create(SuppressionReason,
                                                         reason_code(reason))
          IN /\ UserType' = UserType_get_or_create(UserType, rname,
                                                   is_staff(user))
             /\ User' = profiles
             /\ SuppressionReason' = reasons
             /\ Post' = [Post EXCEPT ![post_id] =
                           suppress(@, reason_id(reasons, reason_code(reason)),
                                    t, profile.id)]
             /\ resp' = Reply(200, "Post suppressed", None, <<>>)
             /\ UNCHANGED <<AuthUser, Comment>>

hide_comment(user, method, payload, comment_id, reason, t) ==
  /\ idle
  /\ UNCHANGED inflight
  /\ (comment_id \in DOMAIN Comment /\ ~Comment[comment_id].is_suppressed)
       => Rows < MaxRows
  /\ IF ~is_authenticated(user)
     THEN /\ resp' = Reply(401, "Unauthorized", None, <<>>)
          /\ UNCHANGED store
     ELSE IF method # "POST"
     THEN /\ resp' = Reply(405, "Invalid method", None, <<>>)
          /\ UNCHANGED store
     ELSE IF ~is_staff(user)
     THEN /\ resp' = Reply(401, "Unauthorized", None, <<>>)
          /\ UNCHANGED store
     ELSE IF payload = "badjson"
     THEN /\ resp' = Reply(400, "Invalid JSON", None, <<>>)
          /\ UNCHANGED store
     ELSE IF payload = "nondict"
     THEN \* a JSON list has no get(): AttributeError
          /\ resp' = Reply(500, "AttributeError", None, <<>>)
          /\ UNCHANGED store
     ELSE IF comment_id = Absent
     THEN /\ resp' = Reply(400, "Missing comment_id", None, <<>>)
          /\ UNCHANGED store
     ELSE IF comment_id = NonNumeric
     THEN /\ resp' = Reply(400, "Invalid comment_id", None, <<>>)
          /\ UNCHANGED store
     ELSE IF comment_id \notin DOMAIN Comment
     THEN /\ resp' = Reply(400, "Comment does not exist", None, <<>>)
          /\ UNCHANGED store
     ELSE IF ~has_profile(user)
     THEN /\ resp' = Reply(400, "User profile not found", None, <<>>)
          /\ UNCHANGED store
     ELSE IF own_content_guard(Comment[comment_id], profile_of(user),
                               is_staff(user))
     THEN /\ resp' = Reply(403, "You cannot hide your own comment.", None, <<>>)
          /\ UNCHANGED store
     ELSE IF reason = JsonNull
     THEN \* get_or_create(suppressed_code=None): IntegrityError, caught
          /\ resp' = Reply(500, "Failed to suppress comment", None, <<>>)
          /\ UNCHANGED store
     ELSE LET reasons == SuppressionReason_get_or_create(SuppressionReason,
                                                         reason_code(reason))
          IN /\ SuppressionReason' = reasons
             /\ Comment' = [Comment EXCEPT ![comment_id] =
                              suppress(@, reason_id(reasons, reason_code(reason)),
                                       t, profile_of(user).id)]
             /\ resp' = Reply(200, "Comment suppressed", None, <<>>)
             /\ UNCHANGED <<AuthUser, UserType, User, Post>>

\* ----------------------------------------------------------------- views
RECURSIVE Perms(_)
Perms(S) ==
  IF S = {}
  THEN {<<>>}
  ELSE UNION {{Append(s, x) : s \in Perms(S \ {x})} : x \in S}

\* an ordering that drops the "-" of "-date"
order_by_date_ascending(rows, ids, descending) ==
  {s \in Perms(ids) :
     \A i, j \in 1..Cardinality(ids) :
        i < j => rows[s[i]].date <= rows[s[j]].date}

\* order_by("-date") / order_by("date"): every listing of the rows the
\* database may return; rows with equal dates come in any order
order_by_date(rows, ids, descending) ==
  {s \in Perms(ids) :
     \A i, j \in 1..Cardinality(ids) :
        i < j => IF descending THEN rows[s[i]].date >= rows[s[j]].date
                               ELSE rows[s[i]].date <= rows[s[j]].date}

Map(s, f(_)) == [i \in 1..Len(s) |-> f(s[i])]

Min(a, b) == IF a < b THEN a ELSE b

\* content[:100]
truncate(text) == Text(text.ch, Min(text.len, TruncLen))

\* strftime("%Y-%m-%d %H:%M"): the time of day down to the minute
strftime(t) == t \div TicksPerMinute

status_of(obj) == IF obj.is_suppressed THEN "suppressed" ELSE "active"

username_of(profile_id) == profile_by_id(profile_id).user

\* the views below are functions of the tables they query: posts and
\* comments stand for the Post and Comment tables

comments_of(comments, order, post_id) ==
  SelectSeq(order, LAMBDA c : comments[c].post = post_id)

dump_comment(comments, c) ==
  [id |-> c, author |-> username_of(comments[c].author),
   content |-> comments[c].content, suppressed |-> comments[c].is_suppressed]

dump_post(posts, comments, p, comment_order, user_profile) ==
  [id |-> p, author |-> username_of(posts[p].author),
   content |-> posts[p].content, suppressed |-> posts[p].is_suppressed,
   comments |-> Map(SelectSeq(comments_of(comments, comment_order, p),
                              LAMBDA c : can_view(comments[c], user_profile)),
                    LAMBDA c : dump_comment(comments, c))]

\* the responses dump_feed may give
dump_feed_view(posts, comments, user) ==
  IF ~is_authenticated(user)
  THEN {Reply(401, "Unauthorized", None, <<>>)}
  ELSE IF ~has_profile(user)
  THEN {Reply(500, "DoesNotExist", None, <<>>)}
  ELSE {Reply(200, "", None,
              Map(SelectSeq(po, LAMBDA p : can_view(posts[p], profile_of(user))),
                  LAMBDA p : dump_post(posts, comments, p, co,
                                       profile_of(user)))) :
          po \in order_by_date(posts, DOMAIN posts, TRUE),
          co \in order_by_date(comments, DOMAIN comments, FALSE)}

dump_feed(user) ==
  /\ idle
  /\ UNCHANGED inflight
  /\ UNCHANGED store
  /\ resp' \in dump_feed_view(Post, Comment, user)

\* a feed that hides an author's own suppressed posts
feed_posts_no_author(posts, user_profile) ==
  IF can_moderate(user_profile)
  THEN DOMAIN posts
  ELSE {p \in DOMAIN posts : ~posts[p].is_suppressed}

\* the rows the truncated feed selects for a viewer
feed_posts(posts, user_profile) ==
  IF can_moderate(user_profile)
  THEN DOMAIN posts
  ELSE {p \in DOMAIN posts :
          ~posts[p].is_suppressed \/ posts[p].author = user_profile.id}

feed_entry(posts, p) ==
  [id |-> p, title |-> posts[p].title,
   username |-> username_of(posts[p].author),
   date |-> strftime(posts[p].date), content |-> truncate(posts[p].content),
   status |-> status_of(posts[p])]

\* the responses feed may give
feed_view(posts, user) ==
  IF ~is_authenticated(user)
  THEN {Reply(401, "Unauthorized", None, <<>>)}
  ELSE IF ~has_profile(user)
  THEN {Reply(500, "DoesNotExist", None, <<>>)}
  ELSE {Reply(200, "", None, Map(po, LAMBDA p : feed_entry(posts, p))) :
          po \in order_by_date(posts, feed_posts(posts, profile_of(user)),
                               TRUE)}

feed(user) ==
  /\ idle
  /\ UNCHANGED inflight
  /\ UNCHANGED store
  /\ resp' \in feed_view(Post, user)

\* a detail check without the author's exception
detail_forbidden_no_author(post, user_profile) ==
  post.is_suppressed /\ ~can_moderate(user_profile)

\* the check that makes the whole detail request fail
detail_forbidden(post, user_profile) ==
  post.is_suppressed /\ post.author # user_profile.id
                     /\ ~can_moderate(user_profile)

\* a detail view that redacts nothing
detail_content_verbatim(comment, user_profile) ==
  comment.content

detail_content(comment, user_profile) ==
  IF comment.is_suppressed /\ comment.author # user_profile.id
                           /\ ~can_moderate(user_profile)
  THEN Placeholder
  ELSE comment.content

detail_comment(comments, c, user_profile) ==
  [id |-> c, username |-> username_of(comments[c].author),
   date |-> strftime(comments[c].date),
   content |-> detail_content(comments[c], user_profile),
   status |-> status_of(comments[c])]

\* the responses post_detail may give
post_detail_view(posts, comments, user, post_id) ==
  IF ~is_authenticated(user)
  THEN {Reply(401, "Unauthorized", None, <<>>)}
  ELSE IF ~has_profile(user)
  THEN {Reply(500, "DoesNotExist", None, <<>>)}
  ELSE IF post_id \notin DOMAIN posts
  THEN {Reply(404, "Post does not exist.", None, <<>>)}
  ELSE IF detail_forbidden(posts[post_id], profile_of(user))
  THEN {Reply(403, "Post not available.", None, <<>>)}
  ELSE {Reply(200, "", None,
              <<[id |-> post_id, title |-> posts[post_id].title,
                 username |-> username_of(posts[post_id].author),
                 date |-> strftime(posts[post_id].date),
                 content |-> posts[post_id].content,
                 status |-> status_of(posts[post_id]),
                 comments |-> Map(comments_of(comments, co, post_id),
                     LAMBDA c : detail_comment(comments, c,
                                               profile_of(user)))]>>) :
          co \in order_by_date(comments, DOMAIN comments, FALSE)}

post_detail(user, post_id) ==
  /\ idle
  /\ UNCHANGED inflight
  /\ UNCHANGED store
  /\ resp' \in post_detail_view(Post, Comment, user, post_id)

feed_page(user) ==
  /\ idle
  /\ UNCHANGED inflight
  /\ UNCHANGED store
  /\ IF ~is_authenticated(user)
     THEN resp' = Reply(302, "/accounts/login/", None, <<>>)
     ELSE IF ~has_profile(user)
     THEN resp' = Reply(500, "DoesNotExist", None, <<>>)
     ELSE \E posts \in order_by_date(Post, DOMAIN Post, TRUE) :
          \E comments \in order_by_date(Comment, DOMAIN Comment, FALSE) :
            resp' = Reply(200, "", None,
                      Map(SelectSeq(posts,
                             LAMBDA p : ~(/\ Post[p].is_suppressed
                                          /\ ~can_moderate(profile_of(user))
                                          /\ Post[p].author # profile_of(user).id)),
                          LAMBDA p : [post |-> p,
                                      comments |->
                                        comments_of(Comment, comments, p)]))

\* ----------------------------------------------------------- the machine
\* a request that is turned away before its fields are read carries none
Unread(user, method, payload) ==
  user = Anonymous \/ method # "POST" \/ payload \in {"badjson", "nondict"}

\* what the clock reads when a request is served.  Dates are compared only
\* within one table, and the clock moves on between requests: a reading is
\* later than that of every row of the table saved before it.
Stamps(saved) == {saved + 1}

\* every request a client can send that may write, its method drawn from
\* methods, its body from payloads, its post contents from texts and its
\* suppression reasons from reasons
Writes(methods, payloads, texts, reasons) ==
  \/ \E m \in methods, u \in Principals \cup {Absent}, ok \in BOOLEAN,
        a \in {"", "0", "1"} :
        /\ (m # "POST" => u = Absent /\ ~ok /\ a = "")
        /\ create_user(m, u, ok, a)
  \/ \E u \in Users, m \in methods, pl \in payloads, ti \in Titles,
        c \in texts \cup {NoText}, t \in Stamps(Len(Post)) :
        /\ (Unread(u, m, pl) => ti = NoText /\ c = NoText)
        /\ create_post(u, m, pl, ti, c, t)
  \/ \E u \in Users, m \in methods, p \in PostIdInputs, c \in CommentTexts,
        html \in BOOLEAN, t \in Stamps(Len(Comment)) :
        /\ (Unread(u, m, "form") => p = Absent /\ c = NoText /\ ~html)
        /\ create_comment(u, m, p, c, html, t)
  \/ \E u \in Users, m \in methods, p \in PostIdInputs, r \in reasons,
        t \in Stamps(Len(Post)) :
        /\ (Unread(u, m, "form") => p = Absent /\ r = NoReason)
        /\ hide_post(u, m, p, r, t)
  \/ \E u \in Users, m \in methods, pl \in payloads, c \in CommentIdInputs,
        r \in reasons \cup {JsonNull}, t \in Stamps(Len(Comment)) :
        /\ (Unread(u, m, pl) => c = Absent /\ r = NoReason)
        /\ (r = JsonNull => pl = "json")
        /\ hide_comment(u, m, pl, c, r, t)

\* the requests that only read
Reads ==
  \/ \E u \in Users : dump_feed(u)
  \/ \E u \in Users : feed(u)
  \/ \E u \in Users, p \in 1..(Len(Post) + 1) : post_detail(u, p)
  \/ \E u \in Users : feed_page(u)

Requests(texts, reasons) ==
  \/ Writes(Methods, Payloads, texts, reasons)
  \/ Reads

\* the board with one post body and the default reason
Next ==
  \/ send_response
  \/ Requests({LongText}, {NoReason})

Spec == Init /\ [][Next]_vars

\* the POST requests that may write, with suppression reasons given by the
\* moderator
NextReasons ==
  \/ send_response
  \/ Writes({"POST"}, HidePayloads, {LongText}, FormReasons)

SpecReasons == Init /\ [][NextReasons]_vars

\* the POST requests that may write and the feed, with short and long post
\* bodies
NextTexts ==
  \/ send_response
  \/ Writes({"POST"}, HidePayloads, Texts, {NoReason})
  \/ \E u \in Users : feed(u)

SpecTexts == Init /\ [][NextTexts]_vars

\* ------------------------------------------------ requests side by side
\* With several workers a view is no longer one step: each database
\* statement commits on its own, and the statements of two views interleave.
\* A worker enters a view with a request that passes the checks the view
\* makes before it looks for the profile or the reason it may have to create;
\* from there on every statement is a step.
InFlight == Cardinality({w \in Workers : inflight[w].pc # "free"})

enter(w, view, pc, user, target, title, content, reason, profile) ==
  inflight' = [inflight EXCEPT ![w] =
                 [pc |-> pc, view |-> view, user |-> user, target |-> target,
                  title |-> title, content |-> content, reason |-> reason,
                  profile |-> profile, reason_row |-> None]]

leave(w, reply) ==
  /\ inflight' = [inflight EXCEPT ![w] = Free]
  /\ resp' = reply

goto(w, pc, profile, reason_row) ==
  /\ inflight' = [inflight EXCEPT ![w] = [@ EXCEPT !.pc = pc,
                                                   !.profile = profile,
                                                   !.reason_row = reason_row]]
  /\ UNCHANGED resp

\* create_post up to "Ensure app-level user profile exists"
enter_create_post(w, user, title, content) ==
  /\ inflight[w].pc = "free"
  /\ Rows + InFlight < MaxRows
  /\ is_authenticated(user) /\ title.len > 0 /\ content.len > 0
  /\ UserType' = UserType_get_or_create(UserType, "serf", FALSE)
  /\ enter(w, "create_post", "get_profile", user, None, title, content,
           NoReason, None)
  /\ UNCHANGED <<AuthUser, User, Post, Comment, SuppressionReason, resp>>

\* create_comment up to "ensure the app's User exists"
enter_create_comment(w, user, post_id, content) ==
  /\ inflight[w].pc = "free"
  /\ Rows + InFlight < MaxRows
  /\ is_authenticated(user) /\ content.len > 0 /\ post_id \in DOMAIN Post
  /\ UserType' = UserType_get_or_create(UserType, role_name(is_staff(user)),
                                        is_staff(user))
  /\ enter(w, "create_comment", "get_profile", user, post_id, NoText, content,
           NoReason, None)
  /\ UNCHANGED <<AuthUser, User, Post, Comment, SuppressionReason, resp>>

\* hide_post up to "build suppression fields"
enter_hide_post(w, user, post_id, reason) ==
  /\ inflight[w].pc = "free"
  /\ Rows + InFlight < MaxRows
  /\ is_authenticated(user) /\ is_staff(user)
  /\ post_id \in DOMAIN Post
  /\ has_profile(user)
  /\ ~own_content_guard(Post[post_id], profile_of(user), is_staff(user))
  /\ UserType' = UserType_get_or_create(UserType, role_name(is_staff(user)),
                                        is_staff(user))
  /\ enter(w, "hide_post", "get_reason", user, post_id, NoText, NoText,
           reason, profile_of(user).id)
  /\ UNCHANGED <<AuthUser, User, Post, Comment, SuppressionReason, resp>>

\* hide_comment up to "Suppress comment safely"
enter_hide_comment(w, user, comment_id, reason) ==
  /\ inflight[w].pc = "free"
  /\ Rows + InFlight < MaxRows
  /\ is_authenticated(user) /\ is_staff(user)
  /\ comment_id \in DOMAIN Comment
  /\ has_profile(user)
  /\ ~own_content_guard(Comment[comment_id], profile_of(user), is_staff(user))
  /\ enter(w, "hide_comment", "get_reason", user, comment_id, NoText, NoText,
           reason, profile_of(user).id)
  /\ UNCHANGED <<store, resp>>

\* a profile column declared ForeignKey in place of OneToOneField
User_not_unique(profiles, user) ==
  TRUE

\* OneToOneField: an insert is refused (IntegrityError) when a row already
\* has the user
User_unique(profiles, user) ==
  ~\E p \in profiles : p.user = user

\* unique=True on suppressed_code
SuppressionReason_unique(reasons, code) ==
  ~\E i \in DOMAIN reasons : reasons[i].suppressed_code = code

\* the role a view gives the profile it creates
new_role(view, user) ==
  IF view = "create_post" THEN "serf" ELSE role_name(is_staff(user))

\* User.objects.get(user=request.user), alone in create_post and as the first
\* half of get_or_create in create_comment
get_profile(w) ==
  LET r == inflight[w]
  IN /\ r.pc = "get_profile"
     /\ IF has_profile(r.user)
        THEN goto(w, "save", profile_of(r.user).id, None)
        ELSE goto(w, "create_profile", None, None)
     /\ UNCHANGED store

\* User.objects.create(...) after a get that found nothing.  create_post
\* lets the IntegrityError of a lost race through (500); get_or_create in
\* create_comment catches it and fetches the row that won
create_profile(w) ==
  LET r == inflight[w]
      profiles == User_create(User, r.user, new_role(r.view, r.user))
  IN /\ r.pc = "create_profile"
     /\ IF User_unique(User, r.user)
        THEN /\ User' = profiles
             /\ goto(w, "save", Cardinality(User) + 1, None)
        ELSE IF r.view = "create_post"
        THEN /\ leave(w, Reply(500, "IntegrityError", None, <<>>))
             /\ UNCHANGED User
        ELSE /\ goto(w, "save", profile_of(r.user).id, None)
             /\ UNCHANGED User
     /\ UNCHANGED <<AuthUser, UserType, Post, Comment, SuppressionReason>>

\* the first half of SuppressionReason.objects.get_or_create
get_reason(w) ==
  LET r == inflight[w]
      code == reason_code(r.reason)
  IN /\ r.pc = "get_reason"
     /\ IF \E i \in DOMAIN SuppressionReason :
             SuppressionReason[i].suppressed_code = code
        THEN goto(w, "save", r.profile, reason_id(SuppressionReason, code))
        ELSE goto(w, "create_reason", r.profile, None)
     /\ UNCHANGED store

\* its second half: the insert, or on IntegrityError the row that won
create_reason(w) ==
  LET r == inflight[w]
      code == reason_code(r.reason)
  IN /\ r.pc = "create_reason"
     /\ IF SuppressionReason_unique(SuppressionReason, code)
        THEN /\ SuppressionReason' =
                  Append(SuppressionReason, [suppressed_code |-> code])
             /\ goto(w, "save", r.profile, Len(SuppressionReason) + 1)
        ELSE /\ goto(w, "save", r.profile, reason_id(SuppressionReason, code))
             /\ UNCHANGED SuppressionReason
     /\ UNCHANGED <<AuthUser, UserType, User, Post, Comment>>

\* the write that ends the view, and its response
save(w) ==
  LET r == inflight[w]
  IN /\ r.pc = "save"
     /\ UNCHANGED <<AuthUser, UserType, SuppressionReason>>
     /\ IF r.view = "create_post"
        THEN /\ User' = (User \ {profile_by_id(r.profile)})
                          \cup {assign_missing_role(profile_by_id(r.profile),
                                                    "serf")}
             /\ Post' = Append(Post, NewPost(r.profile, r.title, r.content,
                                             Len(Post) + 1))
             /\ leave(w, Reply(201, "Post created", Len(Post) + 1, <<>>))
             /\ UNCHANGED Comment
        ELSE IF r.view = "create_comment"
        THEN /\ Comment' = Append(Comment,
                                  NewComment(r.target, r.profile, r.content,
                                             Len(Comment) + 1))
             /\ leave(w, Reply(201, "Comment created", Len(Comment) + 1, <<>>))
             /\ UNCHANGED <<User, Post>>
        ELSE IF r.view = "hide_post"
        THEN /\ Post' = [Post EXCEPT ![r.target] =
                           suppress(@, r.reason_row, Len(Post) + 1, r.profile)]
             /\ leave(w, Reply(200, "Post suppressed", None, <<>>))
             /\ UNCHANGED <<User, Comment>>
        ELSE /\ Comment' = [Comment EXCEPT ![r.target] =
                              suppress(@, r.reason_row, Len(Comment) + 1,
                                       r.profile)]
             /\ leave(w, Reply(200, "Comment suppressed", None, <<>>))
             /\ UNCHANGED <<User, Post>>

\* the board served by two workers
NextRace ==
  \E w \in Workers :
     \/ \E u \in Users : enter_create_post(w, u, Text(1, 1), LongText)
     \/ \E u \in Users, p \in DOMAIN Post :
          enter_create_comment(w, u, p, Text(4, 1))
     \/ \E u \in Users, p \in DOMAIN Post, r \in FormReasons :
          enter_hide_post(w, u, p, r)
     \/ \E u \in Users, c \in DOMAIN Comment, r \in FormReasons :
          enter_hide_comment(w, u, c, r)
     \/ get_profile(w)
     \/ create_profile(w)
     \/ get_reason(w)
     \/ create_reason(w)
     \/ save(w)

SpecRace == Init /\ [][NextRace]_vars

\* =============================================================== claims
Items == {Post[p] : p \in DOMAIN Post} \cup {Comment[c] : c \in DOMAIN Comment}

\* section 4.1: who may see an item
MayView(obj, viewer) ==
  ~obj.is_suppressed \/ can_moderate(viewer) \/ obj.author = viewer.id

\* neither the author nor a moderator
Outsider(obj, viewer) == obj.author # viewer.id /\ ~can_moderate(viewer)

HideStamps == 1..(MaxRows + 1)

IsSet(obj) ==
  /\ obj.suppressed_reason # None
  /\ obj.suppressed_datetime # None
  /\ obj.suppressed_by # None

IsUnset(obj) ==
  /\ obj.suppressed_reason = None
  /\ obj.suppressed_datetime = None
  /\ obj.suppressed_by = None

\* a response of post_detail, dump_feed and feed, told by its shape
DetailEntry(e) == "title" \in DOMAIN e /\ "comments" \in DOMAIN e
DumpEntry(e) == "suppressed" \in DOMAIN e /\ "comments" \in DOMAIN e
FeedEntry(e) == "title" \in DOMAIN e /\ "comments" \notin DOMAIN e

\* C1: for every item and every viewer profile, can_view is true exactly
\* when the item is not suppressed, or the viewer's role can moderate, or
\* the viewer is the item's author.
C1_CanView ==
  \A obj \in Items : \A viewer \in User :
     can_view(obj, viewer) <=> MayView(obj, viewer)

\* a suppressed item that one profile may not see and its author may
C1_Witness ==
  \E obj \in Items : \E viewer, author \in User :
     /\ obj.is_suppressed
     /\ ~can_view(obj, viewer)
     /\ obj.author = author.id /\ can_view(obj, author)

\* C2: a suppress request whose actor is the author of the targeted item
\* always fails with 403 and leaves the item's suppression record unchanged,
\* also when the actor is a moderator.
C2_SelfSuppressForbidden ==
  [][\A u \in Principals, r \in FormReasons, t \in HideStamps :
       /\ \A p \in DOMAIN Post :
            (/\ has_profile(u)
             /\ Post[p].author = profile_of(u).id
             /\ hide_post(u, "POST", p, r, t))
            => (resp'.status = 403 /\ Post'[p] = Post[p])
       /\ \A c \in DOMAIN Comment, pl \in HidePayloads :
            (/\ has_profile(u)
             /\ Comment[c].author = profile_of(u).id
             /\ hide_comment(u, "POST", pl, c, r, t))
            => (resp'.status = 403 /\ Comment'[c] = Comment[c])]_vars

\* C3: a suppress request made by an actor whose profile's role has
\* can_moderate false is rejected with 401 and suppresses nothing.  (Stated
\* for targets of other authors, which C2 does not cover.)
C3_NonModeratorRejected ==
  [][\A u \in Principals, r \in FormReasons, t \in HideStamps :
       /\ \A p \in DOMAIN Post :
            (/\ has_profile(u)
             /\ ~can_moderate(profile_of(u))
             /\ Post[p].author # profile_of(u).id
             /\ hide_post(u, "POST", p, r, t))
            => (resp'.status = 401 /\ Post' = Post /\ Comment' = Comment)
       /\ \A c \in DOMAIN Comment, pl \in HidePayloads :
            (/\ has_profile(u)
             /\ ~can_moderate(profile_of(u))
             /\ Comment[c].author # profile_of(u).id
             /\ hide_comment(u, "POST", pl, c, r, t))
            => (resp'.status = 401 /\ Post' = Post /\ Comment' = Comment)]_vars

\* C4: once an item is suppressed it stays suppressed after every exposed
\* operation.
C4_OneWay ==
  [][/\ \A p \in DOMAIN Post :
          Post[p].is_suppressed => (p \in DOMAIN Post' /\ Post'[p].is_suppressed)
     /\ \A c \in DOMAIN Comment :
          Comment[c].is_suppressed
            => (c \in DOMAIN Comment' /\ Comment'[c].is_suppressed)]_vars

\* an item is still suppressed when a later creation has been answered
C4_Witness ==
  /\ resp.status = 201
  /\ resp.text \in {"Post created", "Comment created"}
  /\ \E obj \in Items : obj.is_suppressed

\* C5: for every stored Post and Comment, is_suppressed is false if and only
\* if suppressed_reason, suppressed_datetime and suppressed_by are all unset,
\* and a suppressed item has all of them set.
C5_RecordWhole ==
  \A obj \in Items :
     /\ ~obj.is_suppressed <=> IsUnset(obj)
     /\ obj.is_suppressed => IsSet(obj)

\* a suppressed item beside one that is not
C5_Witness ==
  \E a, b \in Items : a.is_suppressed /\ IsSet(a) /\ ~b.is_suppressed

\* C6: there is at most one SuppressionReason per code, a suppressed item
\* references the record of the code it was suppressed with, and an absent
\* reason uses the code "default_reason".
C6_ReasonDedup ==
  /\ [](\A i, j \in DOMAIN SuppressionReason :
          SuppressionReason[i].suppressed_code
            = SuppressionReason[j].suppressed_code => i = j)
  /\ [][\A u \in Principals, r \in FormReasons :
          LET code == IF r = NoReason THEN "default_reason" ELSE r
          IN /\ \A p \in DOMAIN Post, t \in Stamps(Len(Post)) :
                  (hide_post(u, "POST", p, r, t) /\ resp'.status = 200)
                  => /\ Post'[p].suppressed_reason \in DOMAIN SuppressionReason'
                     /\ SuppressionReason'[Post'[p].suppressed_reason]
                          .suppressed_code = code
             /\ \A c \in DOMAIN Comment, pl \in HidePayloads,
                  t \in Stamps(Len(Comment)) :
                  (hide_comment(u, "POST", pl, c, r, t) /\ resp'.status = 200)
                  => /\ Comment'[c].suppressed_reason
                          \in DOMAIN SuppressionReason'
                     /\ SuppressionReason'[Comment'[c].suppressed_reason]
                          .suppressed_code = code]_vars

\* a post and a comment suppressed with one code share one record, while a
\* second code has its own
C6_Witness ==
  /\ Len(SuppressionReason) = 2
  /\ \E p \in DOMAIN Post, c \in DOMAIN Comment :
       /\ Post[p].is_suppressed /\ Comment[c].is_suppressed
       /\ Post[p].suppressed_reason = Comment[c].suppressed_reason

\* C7: post_detail for an existing Post fails with 403 and returns no post
\* data exactly when the Post is suppressed and the viewer is neither its
\* author nor a moderator; otherwise it returns the Post with its full
\* content and its status.
C7_DetailForbidden ==
  [][\A u \in Principals : \A p \in DOMAIN Post :
       (has_profile(u) /\ post_detail(u, p))
       => IF Post[p].is_suppressed /\ Outsider(Post[p], profile_of(u))
          THEN resp'.status = 403 /\ resp'.data = <<>>
          ELSE /\ resp'.status = 200
               /\ Len(resp'.data) = 1
               /\ resp'.data[1].id = p
               /\ resp'.data[1].title = Post[p].title
               /\ resp'.data[1].content = Post[p].content
               /\ resp'.data[1].status
                    = (IF Post[p].is_suppressed THEN "suppressed"
                                                ELSE "active")]_vars

\* the detail of a suppressed post has been refused
C7_Witness ==
  /\ resp.status = 403
  /\ resp.text = "Post not available."
  /\ \E p \in DOMAIN Post : \E viewer \in User :
       Post[p].is_suppressed /\ Outsider(Post[p], viewer)

\* C8: a successful post_detail lists every Comment of the Post, none
\* omitted; a Comment's content is the placeholder exactly when the Comment
\* is suppressed and the viewer is neither its author nor a moderator, and
\* the stored content otherwise.
C8_DetailRedaction ==
  [][\A u \in Principals : \A p \in DOMAIN Post :
       (has_profile(u) /\ post_detail(u, p) /\ resp'.status = 200)
       => LET listed == resp'.data[1].comments
              own == {c \in DOMAIN Comment : Comment[c].post = p}
          IN /\ {listed[i].id : i \in DOMAIN listed} = own
             /\ Len(listed) = Cardinality(own)
             /\ \A i \in DOMAIN listed :
                  LET c == Comment[listed[i].id]
                  IN listed[i].content
                       = (IF c.is_suppressed /\ Outsider(c, profile_of(u))
                          THEN Placeholder
                          ELSE c.content)]_vars

\* a detail that lists a redacted comment
C8_Witness ==
  /\ resp.status = 200
  /\ Len(resp.data) = 1
  /\ DetailEntry(resp.data[1])
  /\ \E i \in DOMAIN resp.data[1].comments :
       /\ resp.data[1].comments[i].content = Placeholder
       /\ Comment[resp.data[1].comments[i].id].content # Placeholder

\* C9: the truncated feed of a non-moderator holds exactly the Posts that are
\* not suppressed or are the viewer's own, that of a moderator every Post;
\* each entry has the status of the Post's flag, the content cut to at most
\* its first 100 characters, and no comments.
C9_Feed ==
  [][\A u \in Principals :
       (has_profile(u) /\ feed(u))
       => LET viewer == profile_of(u)
              listed == resp'.data
              expected ==
                IF can_moderate(viewer)
                THEN DOMAIN Post
                ELSE {p \in DOMAIN Post :
                        ~Post[p].is_suppressed \/ Post[p].author = viewer.id}
          IN /\ resp'.status = 200
             /\ {listed[i].id : i \in DOMAIN listed} = expected
             /\ Len(listed) = Cardinality(expected)
             /\ \A i \in DOMAIN listed :
                  LET post == Post[listed[i].id]
                  IN /\ listed[i].status
                          = (IF post.is_suppressed THEN "suppressed"
                                                   ELSE "active")
                     /\ listed[i].content.ch = post.content.ch
                     /\ listed[i].content.len
                          = (IF post.content.len <= 100
                             THEN post.content.len ELSE 100)
                     /\ "comments" \notin DOMAIN listed[i]]_vars

\* a feed that lists a suppressed post with its long body cut, beside a
\* short one that is whole
C9_Witness ==
  /\ resp.status = 200
  /\ \E i, j \in DOMAIN resp.data :
       /\ FeedEntry(resp.data[i]) /\ FeedEntry(resp.data[j])
       /\ resp.data[i].status = "suppressed"
       /\ resp.data[i].content.len = 100
       /\ Post[resp.data[i].id].content.len > 100
       /\ resp.data[j].content = ShortText

\* C10: every Post and every Comment in a dump_feed response is one the
\* viewer may see, and it is shown with its stored content: hidden items are
\* absent, not redacted.
C10_DumpOnlyVisible ==
  [][\A u \in Principals :
       (has_profile(u) /\ dump_feed(u))
       => /\ resp'.status = 200
          /\ \A i \in DOMAIN resp'.data :
               LET e == resp'.data[i]
               IN /\ e.id \in DOMAIN Post
                  /\ MayView(Post[e.id], profile_of(u))
                  /\ e.content = Post[e.id].content
                  /\ e.suppressed = Post[e.id].is_suppressed
                  /\ \A k \in DOMAIN e.comments :
                       LET ce == e.comments[k]
                       IN /\ ce.id \in DOMAIN Comment
                          /\ Comment[ce.id].post = e.id
                          /\ MayView(Comment[ce.id], profile_of(u))
                          /\ ce.content = Comment[ce.id].content
                          /\ ce.suppressed = Comment[ce.id].is_suppressed]_vars

\* a dump that shows a post and leaves out a suppressed comment of it
C10_Witness ==
  /\ resp.status = 200
  /\ \E i \in DOMAIN resp.data :
       /\ DumpEntry(resp.data[i])
       /\ \E c \in DOMAIN Comment :
            /\ Comment[c].post = resp.data[i].id
            /\ Comment[c].is_suppressed
            /\ \A k \in DOMAIN resp.data[i].comments :
                 resp.data[i].comments[k].id # c

\* the ids a dump lists: its posts, and the comments under all of them
DumpedPosts(data) == {data[i].id : i \in DOMAIN data}
DumpedComments(data) ==
  UNION {{data[i].comments[k].id : k \in DOMAIN data[i].comments} :
           i \in DOMAIN data}

\* C11 as first stated: a dump lists every Post the viewer may see and every
\* Comment the viewer may see, whatever the state of the Comment's Post.
C11_DumpAllVisible ==
  [][\A u \in Principals :
       (has_profile(u) /\ dump_feed(u))
       => /\ \A p \in DOMAIN Post :
               MayView(Post[p], profile_of(u)) => p \in DumpedPosts(resp'.data)
          /\ \A c \in DOMAIN Comment :
               MayView(Comment[c], profile_of(u))
                 => c \in DumpedComments(resp'.data)]_vars

\* C11: a dump lists, once each, exactly the Posts the viewer may see, and
\* under each listed Post exactly the Comments of that Post the viewer may
\* see, whether or not the Post itself is suppressed; the Comments of a Post
\* the viewer may not see are absent with it.
C11_DumpVisibleThreads ==
  [][\A u \in Principals :
       (has_profile(u) /\ dump_feed(u))
       => LET data == resp'.data
              visible == {p \in DOMAIN Post : MayView(Post[p], profile_of(u))}
          IN /\ DumpedPosts(data) = visible
             /\ Len(data) = Cardinality(visible)
             /\ \A i \in DOMAIN data :
                  LET shown ==
                        {c \in DOMAIN Comment :
                           /\ Comment[c].post = data[i].id
                           /\ MayView(Comment[c], profile_of(u))}
                      listed == data[i].comments
                  IN /\ {listed[k].id : k \in DOMAIN listed} = shown
                     /\ Len(listed) = Cardinality(shown)]_vars

\* a dump that lists a suppressed post with a comment under it
C11_Witness ==
  /\ resp.status = 200
  /\ \E i \in DOMAIN resp.data :
       /\ DumpEntry(resp.data[i])
       /\ resp.data[i].suppressed
       /\ Len(resp.data[i].comments) > 0

AllReasons == FormReasons \cup {JsonNull}
Rejected == resp'.status = 401 /\ resp'.text = "Unauthorized" /\ UNCHANGED store

\* a target id that is missing and one that is sent
SomeIds == {Absent, 1}

\* C12: a request without a logged-in user to create_post, create_comment,
\* hide_post, hide_comment, feed, post_detail or dump_feed is answered 401
\* Unauthorized and leaves the store as it was, whatever else it carries.
C12_AnonymousRejected ==
  [][/\ \A m \in Methods, pl \in Payloads, ti \in Titles,
          c \in {NoText, LongText}, t \in Stamps(Len(Post)) :
          create_post(Anonymous, m, pl, ti, c, t) => Rejected
     /\ \A m \in Methods, p \in SomeIds, c \in CommentTexts,
          html \in BOOLEAN, t \in Stamps(Len(Comment)) :
          create_comment(Anonymous, m, p, c, html, t) => Rejected
     /\ \A m \in Methods, p \in SomeIds, r \in FormReasons,
          t \in Stamps(Len(Post)) :
          hide_post(Anonymous, m, p, r, t) => Rejected
     /\ \A m \in Methods, pl \in Payloads, c \in SomeIds,
          r \in AllReasons, t \in Stamps(Len(Comment)) :
          hide_comment(Anonymous, m, pl, c, r, t) => Rejected
     /\ feed(Anonymous) => Rejected
     /\ dump_feed(Anonymous) => Rejected
     /\ \A p \in 1..(Len(Post) + 1) : post_detail(Anonymous, p) => Rejected]_vars

\* a request has been turned away where every account is staff and content
\* is stored: the sender was not logged in
C12_Witness ==
  /\ resp.status = 401
  /\ \A a \in AuthUser : a.is_staff
  /\ Len(Post) > 0 /\ Len(Comment) > 0

\* the suppression record of an item
Record(obj) ==
  <<obj.is_suppressed, obj.suppressed_reason, obj.suppressed_datetime,
    obj.suppressed_by>>

RecordsUnchanged ==
  /\ Len(Post') = Len(Post) /\ Len(Comment') = Len(Comment)
  /\ \A p \in DOMAIN Post : Record(Post'[p]) = Record(Post[p])
  /\ \A c \in DOMAIN Comment : Record(Comment'[c]) = Record(Comment[c])

\* C14: a suppress request that ends in a failure leaves the four
\* suppression fields of every Post and Comment as they were (a step that
\* changes one of them is not a suppress request that failed), and no stored
\* item ever has only some of the four fields of a suppression written.
C14_AllOrNothing ==
  /\ [](\A obj \in Items :
          \/ Record(obj) = <<FALSE, None, None, None>>
          \/ obj.is_suppressed /\ IsSet(obj))
  /\ [][\/ RecordsUnchanged
        \/ /\ \A u \in Users, m \in Methods, p \in PostIdInputs,
                r \in AllReasons, t \in Stamps(Len(Post)) :
                hide_post(u, m, p, r, t) => resp'.status = 200
           /\ \A u \in Users, m \in Methods, pl \in Payloads,
                c \in CommentIdInputs, r \in AllReasons,
                t \in Stamps(Len(Comment)) :
                hide_comment(u, m, pl, c, r, t) => resp'.status = 200]_vars

\* a suppression has failed at its write, beside a suppressed item and one
\* that is not
C14_Witness ==
  /\ resp.status = 500
  /\ resp.text = "Failed to suppress comment"
  /\ \E a, b \in Items :
       /\ Record(a) = <<FALSE, None, None, None>>
       /\ b.is_suppressed /\ IsSet(b)

\* section 4.2: the answer the ordered preconditions give an actor with a
\* profile for a target id that was sent
Ladder(actor, exists, own) ==
  IF ~can_moderate(actor) THEN {401}
  ELSE IF ~exists THEN {400, 404}
  ELSE IF own THEN {403}
  ELSE {200}

\* C15: suppress checks authorization, then the existence of the target,
\* then self-suppression, each with its own failure: an actor whose role
\* cannot moderate gets 401 even for a target that does not exist, and a
\* moderator gets 400/404 for a target that does not exist.
C15_CheckOrder ==
  [][\A u \in Principals, r \in FormReasons :
       /\ \A p \in 1..(Len(Post) + 1), t \in Stamps(Len(Post)) :
            (has_profile(u) /\ hide_post(u, "POST", p, r, t))
            => resp'.status
                 \in Ladder(profile_of(u), p \in DOMAIN Post,
                            p \in DOMAIN Post
                              /\ Post[p].author = profile_of(u).id)
       /\ \A c \in 1..(Len(Comment) + 1), pl \in HidePayloads,
            t \in Stamps(Len(Comment)) :
            (has_profile(u) /\ hide_comment(u, "POST", pl, c, r, t))
            => resp'.status
                 \in Ladder(profile_of(u), c \in DOMAIN Comment,
                            c \in DOMAIN Comment
                              /\ Comment[c].author = profile_of(u).id)]_vars

\* an item without its suppression record
Rest(obj) ==
  [f \in DOMAIN obj \ {"is_suppressed", "suppressed_reason",
                       "suppressed_datetime", "suppressed_by"} |-> obj[f]]

\* C16: a successful hide_post changes the suppression record of the
\* targeted Post and nothing else of any Post or Comment; a successful
\* hide_comment changes the suppression record of the targeted Comment and
\* nothing else; authors, bodies and creation times stay as they were.
C16_Independent ==
  [][\A u \in Principals, r \in FormReasons :
       /\ \A p \in DOMAIN Post, t \in Stamps(Len(Post)) :
            (hide_post(u, "POST", p, r, t) /\ resp'.status = 200)
            => /\ Comment' = Comment
               /\ Len(Post') = Len(Post)
               /\ \A q \in DOMAIN Post : q # p => Post'[q] = Post[q]
               /\ Rest(Post'[p]) = Rest(Post[p])
       /\ \A c \in DOMAIN Comment, pl \in HidePayloads,
            t \in Stamps(Len(Comment)) :
            (hide_comment(u, "POST", pl, c, r, t) /\ resp'.status = 200)
            => /\ Post' = Post
               /\ Len(Comment') = Len(Comment)
               /\ \A d \in DOMAIN Comment : d # c => Comment'[d] = Comment[d]
               /\ Rest(Comment'[c]) = Rest(Comment[c])]_vars

\* a post has been suppressed and a comment of it is not, or a comment has
\* been suppressed and its post is not
C16_Witness ==
  /\ resp.status = 200
  /\ \E c \in DOMAIN Comment :
       \/ /\ resp.text = "Post suppressed"
          /\ Post[Comment[c].post].is_suppressed /\ ~Comment[c].is_suppressed
       \/ /\ resp.text = "Comment suppressed"
          /\ ~Post[Comment[c].post].is_suppressed /\ Comment[c].is_suppressed

\* C17: every exposed operation leaves each existing Profile with the role
\* it has, and each role with the can_moderate flag it has.
C17_RoleFixed ==
  [][/\ \A p \in User :
          \E q \in User' :
             q.id = p.id /\ q.user = p.user /\ q.user_type = p.user_type
     /\ \A ty \in UserType :
          \E ty2 \in UserType' :
             ty2.name = ty.name /\ ty2.can_moderate = ty.can_moderate
     /\ \A q \in User' : \A ty2 \in UserType' :
          /\ Cardinality({x \in User' : x.user = q.user}) = 1
          /\ Cardinality({x \in UserType' : x.name = ty2.name}) = 1]_vars

\* the owner of a profile with the role admin has created a post
C17_Witness ==
  /\ resp.status = 201
  /\ resp.text = "Post created"
  /\ resp.id \in DOMAIN Post
  /\ profile_by_id(Post[resp.id].author).user_type = "admin"

\* the entries of a listing name rows whose dates fall / rise along it
NewestFirst(listing, rows) ==
  \A i, j \in DOMAIN listing :
     i < j => rows[listing[i].id].date >= rows[listing[j].id].date

OldestFirst(listing, rows) ==
  \A i, j \in DOMAIN listing :
     i < j => rows[listing[i].id].date <= rows[listing[j].id].date

\* C18: feed and dump_feed list their Posts newest first by creation time,
\* and dump_feed and post_detail list each Post's Comments oldest first.
C18_Ordered ==
  [][\A u \in Principals :
       /\ (has_profile(u) /\ feed(u)) => NewestFirst(resp'.data, Post)
       /\ (has_profile(u) /\ dump_feed(u))
          => /\ NewestFirst(resp'.data, Post)
             /\ \A i \in DOMAIN resp'.data :
                  OldestFirst(resp'.data[i].comments, Comment)
       /\ \A p \in DOMAIN Post :
            (has_profile(u) /\ post_detail(u, p) /\ resp'.status = 200)
            => OldestFirst(resp'.data[1].comments, Comment)]_vars

\* a dump of two posts, one of them with two comments
C18_Witness ==
  /\ resp.status = 200
  /\ Len(resp.data) >= 2
  /\ \E i \in DOMAIN resp.data :
       DumpEntry(resp.data[i]) /\ Len(resp.data[i].comments) >= 2

\* the record a suppression by actor u with reason r at time t leaves
Latest(obj, u, r, t) ==
  /\ obj.is_suppressed
  /\ obj.suppressed_reason \in DOMAIN SuppressionReason'
  /\ SuppressionReason'[obj.suppressed_reason].suppressed_code
       = (IF r = NoReason THEN "default_reason" ELSE r)
  /\ obj.suppressed_by = profile_of(u).id
  /\ obj.suppressed_datetime = t

\* C19: a suppress request by a staff actor with a profile on an item that
\* is already suppressed is answered 200, and the item stays suppressed with
\* the reason, actor and time of this request in place of the earlier ones.
C19_Resuppress ==
  [][\A u \in Principals, r \in FormReasons :
       /\ \A p \in DOMAIN Post, t \in Stamps(Len(Post)) :
            (/\ is_staff(u) /\ has_profile(u)
             /\ Post[p].is_suppressed
             /\ hide_post(u, "POST", p, r, t))
            => (resp'.status = 200 /\ Latest(Post'[p], u, r, t))
       /\ \A c \in DOMAIN Comment, pl \in HidePayloads,
            t \in Stamps(Len(Comment)) :
            (/\ is_staff(u) /\ has_profile(u)
             /\ Comment[c].is_suppressed
             /\ hide_comment(u, "POST", pl, c, r, t))
            => (resp'.status = 200 /\ Latest(Comment'[c], u, r, t))]_vars

\* one item has been suppressed twice: it is the only suppressed item and
\* carries the second of two reasons
C19_Witness ==
  /\ resp.status = 200
  /\ Len(SuppressionReason) = 2
  /\ Cardinality({p \in DOMAIN Post : Post[p].is_suppressed})
       + Cardinality({c \in DOMAIN Comment : Comment[c].is_suppressed}) = 1
  /\ \A obj \in Items : obj.is_suppressed => obj.suppressed_reason = 2

\* other bodies an item could have been written with
AltTitles == {Text(1, 1), Text(6, 2)}
AltTexts == {ShortText, LongText, Text(4, 1), Text(6, 2)}

\* the tables of a store that differs from this one in the body of one item
PostsWith(p, title, content) ==
  [Post EXCEPT ![p] = [@ EXCEPT !.title = title, !.content = content]]

CommentsWith(c, content) ==
  [Comment EXCEPT ![c] = [@ EXCEPT !.content = content]]

\* feed, dump_feed and post_detail answer viewer u alike on both stores
SameViews(posts, comments, u) ==
  /\ feed_view(posts, u) = feed_view(Post, u)
  /\ dump_feed_view(posts, comments, u) = dump_feed_view(Post, Comment, u)
  /\ \A q \in 1..(Len(Post) + 1) :
       post_detail_view(posts, comments, u, q)
         = post_detail_view(Post, Comment, u, q)

\* C20: for a viewer with a profile who is neither a moderator nor the
\* author of a suppressed item, a store that differs only in that item's
\* title or content gives the same responses from feed, dump_feed and
\* post_detail.
C20_BodyHidden ==
  \A u \in Principals :
     has_profile(u)
     => /\ \A p \in DOMAIN Post :
             (Post[p].is_suppressed /\ Outsider(Post[p], profile_of(u)))
             => \A ti \in AltTitles, co \in AltTexts :
                   SameViews(PostsWith(p, ti, co), Comment, u)
        /\ \A c \in DOMAIN Comment :
             (Comment[c].is_suppressed /\ Outsider(Comment[c], profile_of(u)))
             => \A co \in AltTexts :
                   SameViews(Post, CommentsWith(c, co), u)

\* a viewer gets the detail of a post with a suppressed comment of another
\* author, and is refused that of a suppressed post
C20_Witness ==
  \E u \in Principals :
     /\ has_profile(u)
     /\ \E c \in DOMAIN Comment :
          /\ Comment[c].is_suppressed /\ Outsider(Comment[c], profile_of(u))
          /\ \E r \in post_detail_view(Post, Comment, u, Comment[c].post) :
               r.status = 200

\* C13: however the statements of two concurrent requests interleave, the
\* store never holds two Profiles for one principal nor two
\* SuppressionReasons for one code.
C13_NoDuplicates ==
  /\ \A p, q \in User : p.user = q.user => p = q
  /\ \A i, j \in DOMAIN SuppressionReason :
       SuppressionReason[i].suppressed_code
         = SuppressionReason[j].suppressed_code => i = j

\* both races have been lost: a create_post was answered with the
\* IntegrityError of its insert, and a worker is about to insert a reason
\* that a concurrent request has inserted since the worker looked
C13_Witness ==
  /\ resp = Reply(500, "IntegrityError", None, <<>>)
  /\ \E w \in Workers :
       /\ inflight[w].pc = "create_reason"
       /\ ~SuppressionReason_unique(SuppressionReason,
                                    reason_code(inflight[w].reason))
====
